---------------------------- MODULE Spec2Model ----------------------------
(***************************************************************************)
(* Model of the flattening engine of modules/parser.py: extract_dataframes *)
(* (flatten_first_level, then the loop of flatten_other_levels over        *)
(* flatten_from_nested), of create_short_name, and of index_to_one /       *)
(* update_indices.                                                         *)
(*                                                                         *)
(* pandas is modelled by what the calls of parser.py do with it            *)
(* (pandas 1.3 .. 1.5, the releases that have both the fast path of        *)
(* json_normalize and DataFrame.iteritems):                                *)
(*   - json_normalize(list) makes one row per element; a dict element      *)
(*     gives its fields as cells, nested dicts flattened into dotted       *)
(*     column names, list values kept as cells; an element that is not a   *)
(*     dict gives a row without cells; json_normalize([]) is the empty     *)
(*     frame;                                                              *)
(*   - DataFrame(list of dicts) has the union of the keys as columns, in   *)
(*     order of first appearance, NaN where a row lacks the key;           *)
(*   - DataFrame(list, columns=[c]) has the single column c, one row per   *)
(*     element;                                                            *)
(*   - the index of a new frame is 0 .. N-1.                               *)
(*                                                                         *)
(* The documents are the root objects of up to MaxNodes nodes whose fields *)
(* hold scalars or lists, a list holding scalars only or objects only.     *)
(***************************************************************************)
EXTENDS Integers, Sequences, FiniteSets, TLC

VARIABLES doc, pc, tables, overwritten, passes, name, short_name, dataframes, applied

vars == <<doc, pc, tables, overwritten, passes, name, short_name, dataframes, applied>>

flattenVars == <<doc, pc, tables, overwritten, passes>>
nameVars == <<name, short_name>>
indexVars == <<dataframes, applied>>

-----------------------------------------------------------------------------
(* Bounds of the model.                                                    *)

\* nodes (objects, lists, scalars) of the input document below its root object
MaxNodes == 6
\* saturation of the pass counter
MaxPasses == 6

-----------------------------------------------------------------------------
(* Values: the nested document json.load / xmltodict / bios hand over.     *)

Str(s) == <<"str", s>>
Num(s) == <<"num", s>>
List(items) == <<"list", items>>
Dict(fields) == <<"dict", fields>>
NaN == <<"nan", "">>

\* the element of a set of one element: a loop's state so far is bound as an
\* element, so that it is computed once however often the loop's body reads it
Only(S) == CHOOSE v \in S : TRUE

IsList(v) == v[1] = "list"
IsDict(v) == v[1] = "dict"
IsStr(v) == v[1] = "str"

\* field names of the root object and of the objects below it
RootKeys == <<"a", "1">>
Keys == <<"x", "y">>
Scalars == {Str("p"), Num("7")}

RECURSIVE ScalarSeqs(_)
ScalarSeqs(m) ==
    IF m = 0 THEN {<<>>}
    ELSE {<<s>> \o t : s \in Scalars, t \in ScalarSeqs(m - 1)}

\* field lists over keys[j..] with m nodes in all, from the levels built so far;
\* a field holds a scalar or a list
RECURSIVE FieldSeqs(_, _, _, _)
FieldSeqs(levels, keys, j, m) ==
    IF j > Len(keys) THEN (IF m = 0 THEN {<<>>} ELSE {})
    ELSE FieldSeqs(levels, keys, j + 1, m)
         \cup UNION {{<< <<keys[j], v>> >> \o f :
                        v \in levels[s].cells, f \in FieldSeqs(levels, keys, j + 1, m - s)} : s \in 1..m}

\* with exactly k nodes: the scalars and lists (a list holds scalars only or
\* objects only), the objects, and the sequences of objects
Level(levels, k) ==
    LET objseqs(m) == IF m = 0 THEN {<<>>} ELSE levels[m].objseqs
        lists == {List(s) : s \in ScalarSeqs(k - 1) \cup objseqs(k - 1)}
        objs == {Dict(f) : f \in FieldSeqs(levels, Keys, 1, k - 1)}
        objsOf(j) == IF j = k THEN objs ELSE levels[j].objs
    IN [cells |-> (IF k = 1 THEN Scalars ELSE {}) \cup lists,
        objs |-> objs,
        objseqs |-> UNION {{<<o>> \o s : o \in objsOf(j), s \in objseqs(k - j)} : j \in 1..k}]

RECURSIVE Levels(_)
Levels(k) == IF k = 0 THEN <<>> ELSE LET below == Levels(k - 1) IN Append(below, Level(below, k))

\* the documents: root objects with at most MaxNodes nodes below the root
Documents ==
    LET levels == Levels(MaxNodes)
    IN UNION {{Dict(f) : f \in FieldSeqs(levels, RootKeys, 1, m)} : m \in 0..MaxNodes}

-----------------------------------------------------------------------------
(* pandas: frames, as parser.py builds and reads them.                     *)

\* A frame: its column labels, its rows (the cells of a row in column order)
\* and, for the claims, the list it was made from (origin).
Frame(columns, rows, origin) == [columns |-> columns, rows |-> rows, origin |-> origin]

RootOrigin == [kind |-> "root", parent |-> "", column |-> "", row |-> 0, rank |-> 0, items |-> <<>>]
FieldOrigin(field, items) ==
    [kind |-> "field", parent |-> "", column |-> field, row |-> 0, rank |-> 0, items |-> items]
CellOrigin(parent, column, row, rank, items) ==
    [kind |-> "cell", parent |-> parent, column |-> column, row |-> row, rank |-> rank, items |-> items]

\* _normalise_json: the fields of a dict as (dotted key, value) pairs, nested
\* dicts flattened
RECURSIVE NormaliseFields(_, _)
NormaliseFields(fields, prefix) ==
    IF fields = <<>> THEN <<>>
    ELSE LET k == IF prefix = "" THEN Head(fields)[1] ELSE prefix \o "." \o Head(fields)[1]
             v == Head(fields)[2]
         IN (IF IsDict(v) THEN NormaliseFields(v[2], k) ELSE << <<k, v>> >>)
            \o NormaliseFields(Tail(fields), prefix)

\* _simple_json_normalize of one element: a dict gives its non-dict fields, then
\* its nested dicts flattened; any other element gives the empty record
SimpleNormalize(v) ==
    IF IsDict(v)
    THEN SelectSeq(v[2], LAMBDA f : ~IsDict(f[2]))
         \o NormaliseFields(SelectSeq(v[2], LAMBDA f : IsDict(f[2])), "")
    ELSE <<>>

HasKey(record, k) == \E j \in 1..Len(record) : record[j][1] = k
ValueOf(record, k) == record[CHOOSE j \in 1..Len(record) : record[j][1] = k][2]

\* the keys of the records, in order of first appearance
RECURSIVE RecordColumns(_, _)
RecordColumns(records, seen) ==
    IF records = <<>> THEN seen
    ELSE LET new == SelectSeq([j \in 1..Len(Head(records)) |-> Head(records)[j][1]],
                              LAMBDA k : \A c \in 1..Len(seen) : seen[c] # k)
         IN RecordColumns(Tail(records), seen \o new)

\* pandas.json_normalize(items) for a list: one row per element
JsonNormalize(items, origin) ==
    LET records == [r \in 1..Len(items) |-> SimpleNormalize(items[r])]
        columns == RecordColumns(records, <<>>)
    IN Frame(columns,
             [r \in 1..Len(items) |->
                [c \in 1..Len(columns) |->
                    IF HasKey(records[r], columns[c]) THEN ValueOf(records[r], columns[c]) ELSE NaN]],
             origin)

\* pandas.DataFrame(items, columns=[column]): one column, one row per element
SingleColumn(items, column, origin) ==
    Frame(<<column>>, [r \in 1..Len(items) |-> <<items[r]>>], origin)

\* table.drop(column, axis=1) that drops nothing
DropMutantKeep(table, column) == table

\* table.drop(column, axis=1) that drops the first column, whatever its label
DropMutantFirst(table, column) ==
    [table EXCEPT !.columns = Tail(@),
                  !.rows = [r \in 1..Len(@) |-> Tail(@[r])]]

\* table.drop(column, axis=1)
Drop(table, column) ==
    LET keep == SelectSeq([c \in 1..Len(table.columns) |-> c],
                          LAMBDA c : table.columns[c] # column)
    IN Frame([c \in 1..Len(keep) |-> table.columns[keep[c]]],
             [r \in 1..Len(table.rows) |-> [c \in 1..Len(keep) |-> table.rows[r][keep[c]]]],
             table.origin)

\* the cells of a column, top to bottom
Cells(table, c) == [r \in 1..Len(table.rows) |-> table.rows[r][c]]

-----------------------------------------------------------------------------
(* The mapping from table name to frame: a dict, which keeps insertion     *)
(* order.                                                                  *)

Names(d) == {d[j].key : j \in 1..Len(d)}
Has(d, key) == key \in Names(d)
Get(d, key) == d[CHOOSE j \in 1..Len(d) : d[j].key = key].table
\* d[key] = table
Set(d, key, table) ==
    IF Has(d, key)
    THEN [j \in 1..Len(d) |-> IF d[j].key = key THEN [key |-> key, table |-> table] ELSE d[j]]
    ELSE Append(d, [key |-> key, table |-> table])
\* d.pop(key)
Pop(d, key) == SelectSeq(d, LAMBDA e : e.key # key)

\* the assignment d[key] = table replaces a table made from another list
Replaces(d, key, table) == Has(d, key) /\ Get(d, key).origin # table.origin

-----------------------------------------------------------------------------
(* flatten_first_level                                                     *)

\* pandas.json_normalize(json_string): the root object as a frame of one row
RootFrame(document) == JsonNormalize(<<document>>, RootOrigin)

\* value.values[0][0] of an empty list raises IndexError
RaisesIndexError(value) == IsList(value) /\ value[2] = <<>>

\* the loop over the columns of the root frame, from column c on: the new
\* tables, the names whose table another list replaced, and whether the loop
\* raised
RECURSIVE FirstLevelColumns(_, _, _)
FirstLevelColumns(dataframe, c, acc) ==
    IF c > Len(dataframe.columns) THEN acc
    ELSE LET field == dataframe.columns[c]
             value == dataframe.rows[1][c]
             new_table == IF IsStr(value[2][1])
                          THEN SingleColumn(value[2], field, FieldOrigin(field, value[2]))
                          ELSE JsonNormalize(value[2], FieldOrigin(field, value[2]))
         IN Only({IF st.raised THEN st
                  ELSE FirstLevelColumns(dataframe, c + 1,
                          IF ~IsList(value)
                          THEN [st EXCEPT !.columns_list = Append(@, field)]
                          ELSE IF RaisesIndexError(value)
                          THEN [st EXCEPT !.raised = TRUE]
                          ELSE [st EXCEPT !.new_tables = Set(@, field, new_table),
                                          !.replaced = IF Replaces(st.new_tables, field, new_table)
                                                       THEN @ \cup {field} ELSE @]) : st \in {acc}})

\* dataframe[columns_list]
SelectColumns(dataframe, columns_list) ==
    LET keep == SelectSeq([c \in 1..Len(dataframe.columns) |-> c],
                          LAMBDA c : \E k \in 1..Len(columns_list) : columns_list[k] = dataframe.columns[c])
    IN Frame([c \in 1..Len(keep) |-> dataframe.columns[keep[c]]],
             [r \in 1..Len(dataframe.rows) |-> [c \in 1..Len(keep) |-> dataframe.rows[r][keep[c]]]],
             dataframe.origin)

flatten_first_level(dataframe) ==
    LET st == FirstLevelColumns(dataframe, 1,
                  [columns_list |-> <<>>, new_tables |-> <<>>, replaced |-> {}, raised |-> FALSE])
        root == SelectColumns(dataframe, st.columns_list)
    IN IF st.raised THEN st
       ELSE [st EXCEPT !.new_tables = Set(@, "1", root),
                       !.replaced = IF Replaces(st.new_tables, "1", root) THEN @ \cup {"1"} ELSE @]

-----------------------------------------------------------------------------
(* flatten_from_nested                                                     *)

\* how many of the cells 1..i are lists
RECURSIVE ListsUpTo(_, _)
ListsUpTo(cells, i) ==
    IF i = 0 THEN 0 ELSE ListsUpTo(cells, i - 1) + (IF IsList(cells[i]) THEN 1 ELSE 0)

\* a counter that only the cells holding a list advance
RowOrdinalMutantRank(cells, i) == ListsUpTo(cells, i)

\* the number enumerate(cells.values, start=1) gives the i-th cell
RowOrdinal(cells, i) == i

\* f"{name}.{column}{i}"
NewColumn(table_name, column, i) == table_name \o "." \o column \o ToString(i)

\* the loop over the cells of one column, from cell i on
RECURSIVE NestedCells(_, _, _, _, _)
NestedCells(table_name, column, cells, i, acc) ==
    IF i > Len(cells) THEN acc
    ELSE Only({NestedCells(table_name, column, cells, i + 1,
                  IF IsList(cells[i])
                  THEN LET new_column == NewColumn(table_name, column, RowOrdinal(cells, i))
                           new_df == JsonNormalize(cells[i][2],
                                         CellOrigin(table_name, column, i, ListsUpTo(cells, i), cells[i][2]))
                       IN [st EXCEPT !.new_tables = Set(@, new_column, new_df),
                                     !.replaced = IF Replaces(st.new_tables, new_column, new_df)
                                                  THEN @ \cup {new_column} ELSE @,
                                     !.change_table = TRUE]
                  ELSE st) : st \in {acc}})

\* the loop over the columns of one table of the snapshot, from column c on
RECURSIVE NestedColumns(_, _, _, _)
NestedColumns(table_name, table, c, acc) ==
    IF c > Len(table.columns) THEN acc
    ELSE LET column == table.columns[c]
             dropped == Drop(table, column)
         IN Only({NestedColumns(table_name, table, c + 1,
                      IF st.change_table
                      THEN [st EXCEPT !.new_tables = Set(Pop(@, table_name), table_name, dropped),
                                      !.replaced = IF Replaces(st.new_tables, table_name, dropped)
                                                   THEN @ \cup {table_name} ELSE @,
                                      !.loop_again = TRUE]
                      ELSE st) :
                  st \in {NestedCells(table_name, column, Cells(table, c), 1,
                                      [acc EXCEPT !.change_table = FALSE])}})

\* the loop over new_tables.copy().items(), from entry k on
RECURSIVE NestedTables(_, _, _)
NestedTables(snapshot, k, acc) ==
    IF k > Len(snapshot) THEN acc
    ELSE NestedTables(snapshot, k + 1,
                      NestedColumns(snapshot[k].key, snapshot[k].table, 1, acc))

flatten_from_nested(tabs) ==
    NestedTables(tabs, 1,
        [new_tables |-> tabs, replaced |-> {}, change_table |-> FALSE, loop_again |-> FALSE])

-----------------------------------------------------------------------------
(* extract_dataframes: flatten_first_level, then flatten_other_levels.     *)

FlattenInit ==
    /\ doc \in Documents
    /\ pc = "start"
    /\ tables = <<>>
    /\ overwritten = {}
    /\ passes = 0

\* tables_head = flatten_first_level(dataframe)
FlattenFirstLevel ==
    /\ pc = "start"
    /\ LET st == flatten_first_level(RootFrame(doc))
       IN IF st.raised
          THEN pc' = "error" /\ UNCHANGED <<tables, overwritten>>
          ELSE pc' = "loop" /\ tables' = st.new_tables /\ overwritten' = st.replaced
    /\ UNCHANGED <<doc, passes, nameVars, indexVars>>

\* "if not loop_again: break", the other way round
LoopAgainMutantInverted(st) == ~st.loop_again

\* the loop of flatten_other_levels takes another turn
LoopAgain(st) == st.loop_again

\* one turn of the loop of flatten_other_levels
FlattenFromNested ==
    /\ pc = "loop"
    /\ LET st == flatten_from_nested(tables)
       IN /\ tables' = st.new_tables
          /\ overwritten' = overwritten \cup st.replaced
          /\ pc' = IF LoopAgain(st) THEN "loop" ELSE "done"
    /\ passes' = IF passes < MaxPasses THEN passes + 1 ELSE passes
    /\ UNCHANGED <<doc, nameVars, indexVars>>

Init ==
    /\ FlattenInit
    /\ name = <<>> /\ short_name = <<>>
    /\ dataframes = <<>> /\ applied = 0

Next == FlattenFirstLevel \/ FlattenFromNested

Spec == Init /\ [][Next]_vars

\* the loop of flatten_other_levels takes its next turn: the program is
\* sequential and nothing suspends it
FairSpec == Spec /\ WF_vars(FlattenFromNested)

-----------------------------------------------------------------------------
(* create_short_name.  A name is the sequence of its characters.           *)

\* segments of a name given to create_short_name
MaxSegs == 3
\* the lengths of a segment
SegLens == {0, 1, 2, 3, 16, 32}

\* the longest sheet label
SheetLimit == 31
\* the characters kept in front when the shortened name is still too long
KeptFront == 30

Alphabet == <<"a", "b", "c", "d", "e", "f", "g", "h">>
Segment(len) == [k \in 1..len |-> Alphabet[((k - 1) % Len(Alphabet)) + 1]]

RECURSIVE Dotted(_)
Dotted(n) ==
    IF n = 1 THEN {Segment(len) : len \in SegLens}
    ELSE {Segment(len) \o <<".">> \o rest : len \in SegLens, rest \in Dotted(n - 1)}

NameInputs == UNION {Dotted(n) : n \in 1..MaxSegs}

\* s.split(".")
RECURSIVE Split(_, _, _)
Split(s, k, current) ==
    IF k > Len(s) THEN <<current>>
    ELSE IF s[k] = "." THEN <<current>> \o Split(s, k + 1, <<>>)
    ELSE Split(s, k + 1, Append(current, s[k]))

\* s[from:to]
Slice(s, from, to) == SubSeq(s, from + 1, IF to < Len(s) THEN to ELSE Len(s))

\* the loop over names[:len(names) - 1]; value[len(value) - 1] of an empty
\* value raises IndexError
RECURSIVE ShortenSegments(_, _, _)
ShortenSegments(names, k, st) ==
    IF k > Len(names) - 1 \/ st.raised THEN st
    ELSE LET value == names[k]
         IN ShortenSegments(names, k + 1,
                IF value = <<>>
                THEN [st EXCEPT !.raised = TRUE]
                ELSE [st EXCEPT !.value = @ \o Slice(value, 0, 2) \o <<value[Len(value)]>> \o <<".">>])

create_short_name(n) ==
    IF ~(Len(n) > SheetLimit) THEN [raised |-> FALSE, value |-> n]
    ELSE LET names == Split(n, 1, <<>>)
             st == ShortenSegments(names, 1, [raised |-> FALSE, value |-> <<>>])
             potential_short_name == st.value \o names[Len(names)]
         IN IF st.raised THEN st
            ELSE [raised |-> FALSE,
                  value |-> IF Len(potential_short_name) <= SheetLimit
                            THEN potential_short_name
                            ELSE Slice(potential_short_name, 0, KeptFront)
                                 \o <<potential_short_name[Len(potential_short_name)]>>]

NameInit ==
    /\ name \in NameInputs
    /\ short_name = <<>>
    /\ pc = "start"
    /\ doc = <<>> /\ tables = <<>> /\ overwritten = {} /\ passes = 0
    /\ dataframes = <<>> /\ applied = 0

CreateShortName ==
    /\ pc = "start"
    /\ LET st == create_short_name(name)
       IN IF st.raised
          THEN pc' = "error" /\ short_name' = short_name
          ELSE pc' = "done" /\ short_name' = st.value
    /\ UNCHANGED <<name, doc, tables, overwritten, passes, indexVars>>

NameNext == CreateShortName

SpecName == NameInit /\ [][NameNext]_vars

-----------------------------------------------------------------------------
(* index_to_one and update_indices.  Of a frame they touch the index only, *)
(* the sequence of its row labels.                                         *)

\* rows of a frame given to update_indices
MaxRows == 3
\* calls of update_indices
MaxApplied == 2

IndexNames == {"1", "a", "a.x1"}

\* the index of a new frame of n rows
RangeIndex(n) == [i \in 1..n |-> i - 1]

\* dataframe.index = range(1, N + 1)
index_to_one_mutant_reset(index) == [i \in 1..Len(index) |-> i]

\* dataframe.index += 1
index_to_one(index) == [i \in 1..Len(index) |-> index[i] + 1]

update_indices(frames) == [n \in DOMAIN frames |-> index_to_one(frames[n])]

IndexInit ==
    /\ dataframes \in [IndexNames -> {RangeIndex(n) : n \in 0..MaxRows}]
    /\ applied = 0
    /\ pc = "start"
    /\ doc = <<>> /\ tables = <<>> /\ overwritten = {} /\ passes = 0
    /\ name = <<>> /\ short_name = <<>>

UpdateIndices ==
    /\ applied < MaxApplied
    /\ dataframes' = update_indices(dataframes)
    /\ applied' = applied + 1
    /\ UNCHANGED <<flattenVars, nameVars>>

IndexNext == UpdateIndices

SpecIndex == IndexInit /\ [][IndexNext]_vars

-----------------------------------------------------------------------------
(* What the claims speak of.                                               *)

\* the cells of a table that hold a list
ListCellsOf(table) ==
    Cardinality({rc \in (1..Len(table.rows)) \X (1..Len(table.columns)) :
                    IsList(table.rows[rc[1]][rc[2]])})

RECURSIVE TotalListCells(_)
TotalListCells(d) == IF d = <<>> THEN 0 ELSE ListCellsOf(Head(d).table) + TotalListCells(Tail(d))

HoldsList(table, c) == \E r \in 1..Len(table.rows) : IsList(table.rows[r][c])
HasColumn(table, column) == \E c \in 1..Len(table.columns) : table.columns[c] = column
CellsOf(table, column) ==
    Cells(table, CHOOSE c \in 1..Len(table.columns) : table.columns[c] = column)

\* a table made from a list, and from a list of scalars
FromList(table) == table.origin.kind \in {"field", "cell"}
FromScalars(table) ==
    /\ FromList(table)
    /\ table.origin.items # <<>>
    /\ \A i \in 1..Len(table.origin.items) :
          ~IsDict(table.origin.items[i]) /\ ~IsList(table.origin.items[i])

\* the fields of an object that hold a list
ListFields(v) == {j \in 1..Len(v[2]) : IsList(v[2][j][2])}

Flattening == pc \in {"loop", "done"}

-----------------------------------------------------------------------------
(* The claims.                                                             *)

\* C1: when extract_dataframes returns, no table of the returned mapping has a
\* cell that holds a list.
C1_NoListCellAtReturn ==
    pc = "done" => \A j \in 1..Len(tables) : ListCellsOf(tables[j].table) = 0

\* C1, its case: the loop has returned a table made from a cell of a table that
\* was itself made from a cell.
C1_Witness ==
    /\ pc = "done"
    /\ \E j \in 1..Len(tables) :
          /\ tables[j].table.origin.kind = "cell"
          /\ Has(tables, tables[j].table.origin.parent)
          /\ Get(tables, tables[j].table.origin.parent).origin.kind = "cell"

\* C2 (as claimed): every table made from a list of scalars, a top-level field or
\* a cell, has exactly one column, whose cells are the elements of the list in
\* order.
C2_ScalarListIsOneColumn ==
    Flattening =>
        \A j \in 1..Len(tables) :
            FromScalars(tables[j].table) =>
                /\ Len(tables[j].table.columns) = 1
                /\ Cells(tables[j].table, 1) = tables[j].table.origin.items

\* C3 (as claimed): no assignment to the mapping replaces a table made from
\* another list or from the root: every generated name is new.
C3_NamesUnique == Flattening => overwritten = {}

\* C4 (as claimed): every list that flattening meets, the empty one included, is
\* turned into a table (flatten_first_level does not raise on it), and the table
\* has as many rows as the list has elements.
C4_RowConservation ==
    /\ pc # "error"
    /\ \A j \in 1..Len(tables) :
          FromList(tables[j].table) =>
              Len(tables[j].table.rows) = Len(tables[j].table.origin.items)

\* C5: the loop of flatten_other_levels exits: once the loop is entered, a turn
\* reports loop_again = False in the end.
C5_LoopTerminates == (pc = "loop") ~> (pc = "done")

\* C5, its case: the loop has exited after at least two turns that expanded
\* cells, on a table made from an object with several list-valued fields.
C5_Witness ==
    /\ pc = "done"
    /\ passes >= 3
    /\ \E j \in 1..Len(tables) :
          \E i \in 1..Len(tables[j].table.origin.items) :
              /\ IsDict(tables[j].table.origin.items[i])
              /\ Cardinality(ListFields(tables[j].table.origin.items[i])) >= 2

\* C6 (as claimed): the ordinal in the name of a table made from a cell counts
\* only the rows of the parent that hold a list in that column.
C6_OrdinalAmongListRows ==
    \A j \in 1..Len(tables) :
        LET o == tables[j].table.origin
        IN o.kind = "cell" => tables[j].key = o.parent \o "." \o o.column \o ToString(o.rank)

\* C6 (amended): the ordinal in the name of a table made from a cell is the
\* 1-based position of the cell's row among all rows of the parent table.
C6_OrdinalAmongAllRows ==
    \A j \in 1..Len(tables) :
        LET o == tables[j].table.origin
        IN o.kind = "cell" => tables[j].key = o.parent \o "." \o o.column \o ToString(o.row)

\* C6, its case: a table was made from a cell below a row that holds no list in
\* that column.
C6_Witness ==
    \E j \in 1..Len(tables) :
        LET o == tables[j].table.origin
        IN o.kind = "cell" /\ o.rank < o.row

\* C7 (as claimed): create_short_name returns, without raising, a name of at
\* most 31 characters for every dotted name.
C7_ShortNameBound ==
    /\ pc # "error"
    /\ pc = "done" => Len(short_name) <= SheetLimit

\* C8 (as claimed): a table whose rows are numbered 1..N keeps that numbering
\* when index_to_one is applied to it.
C8_ReindexIdempotent ==
    [][\A n \in IndexNames :
          dataframes[n] = [i \in 1..Len(dataframes[n]) |-> i] => dataframes'[n] = dataframes[n]]_vars

\* C8 (amended): index_to_one keeps the number of rows and adds one to every row
\* label: 0..N-1 becomes 1..N, and 1..N becomes 2..N+1.
C8_ReindexShifts ==
    [][\A n \in IndexNames :
          /\ Len(dataframes'[n]) = Len(dataframes[n])
          /\ \A i \in 1..Len(dataframes[n]) : dataframes'[n][i] = dataframes[n][i] + 1]_vars

\* C8, its case: update_indices has been applied to tables already numbered from 1.
C8_Witness ==
    /\ applied = 2
    /\ \E n \in IndexNames : Len(dataframes[n]) >= 1 /\ dataframes[n][1] = 2

\* C9 (as claimed): a turn that finds a cell holding a list leaves fewer such
\* cells, over all tables, than it found.
C9_PassReducesListCells ==
    [][(pc = "loop" /\ TotalListCells(tables) > 0) =>
          TotalListCells(tables') < TotalListCells(tables)]_vars

\* C9 (amended): a turn that finds a cell holding a list leaves at least one of
\* the tables it started with with fewer such cells than that table had.
C9_PassShrinksSomeTable ==
    [][(pc = "loop" /\ TotalListCells(tables) > 0) =>
          \E j \in 1..Len(tables) :
              /\ Has(tables', tables[j].key)
              /\ ListCellsOf(Get(tables', tables[j].key)) < ListCellsOf(tables[j].table)]_vars

\* C9, its case: a turn has made, from one cell, a table with several cells that
\* hold lists.
C9_Witness ==
    /\ pc = "loop"
    /\ passes >= 1
    /\ \E j \in 1..Len(tables) :
          tables[j].table.origin.kind = "cell" /\ ListCellsOf(tables[j].table) >= 2

\* C10 (as claimed): after a turn, a table the turn started with has lost every
\* column that held a list and kept, cell by cell, every column that held none.
C10_ListColumnsRemoved ==
    [][pc = "loop" =>
          \A j \in 1..Len(tables) :
              LET before == tables[j].table
                  after == Get(tables', tables[j].key)
              IN \A c \in 1..Len(before.columns) :
                    IF HoldsList(before, c)
                    THEN ~HasColumn(after, before.columns[c])
                    ELSE /\ HasColumn(after, before.columns[c])
                         /\ CellsOf(after, before.columns[c]) = Cells(before, c)]_vars

=============================================================================
